---- MODULE Spec2Model ----
(***************************************************************************)
(* A model of fix_chat_history.py: the workspace scan, the orphan          *)
(* resolver, the index rebuilder and writer (repair_workspace), and the    *)
(* two command-line drivers (single workspace, all workspaces).            *)
(*                                                                         *)
(* Texts are sequences of one-character strings.  An optional JSON field   *)
(* is a sequence of length 0 (absent) or 1 (present).  Session IDs are     *)
(* small integers whose numeric order stands for the order sorted() gives  *)
(* the ID strings.                                                         *)
(***************************************************************************)
EXTENDS Integers, Sequences, FiniteSets, TLC

\* ------------------------------------------------------------------ bounds

\* Clock ticks the model lets pass; a tick is a fraction of a second.
MaxTick == 2
\* Ticks in one second: strftime('%Y%m%d_%H%M%S') drops the fraction.
TicksPerSecond == 2
\* repair_workspace calls the library-level driver makes in one behaviour.
MaxCalls == 2

\* ------------------------------------------------------------- the universe

Workspaces == {"A", "B", "C"}
\* storage_root.iterdir(): the order the directories are enumerated in.
ScanOrder == <<"A", "B", "C">>
SessionIds == {1, 2}
\* A command-line workspace id that names no directory under the storage root.
NoSuchId == "nope"

Absent == <<>>
Some(v) == <<v>>

\* ------------------------------------------------------------------- texts

UNTITLED == <<"U","n","t","i","t","l","e","d"," ","S","e","s","s","i","o","n">>
ELLIPSIS == <<".", ".", ".">>
\* if len(title) > 100
TitleMax == 100
\* title[:97]
TitleKeep == 97

IsSpace(c) == c \in {" ", "\n", "\t"}

RECURSIVE LStrip(_)
LStrip(t) ==
  IF t = <<>> THEN t
  ELSE IF IsSpace(Head(t)) THEN LStrip(Tail(t)) ELSE t

RECURSIVE RStrip(_)
RStrip(t) ==
  IF t = <<>> THEN t
  ELSE IF IsSpace(t[Len(t)]) THEN RStrip(SubSeq(t, 1, Len(t) - 1)) ELSE t

\* str.strip()
Strip(t) == RStrip(LStrip(t))

\* title[:n]
Prefix(t, n) == SubSeq(t, 1, IF Len(t) < n THEN Len(t) ELSE n)

\* ------------------------------------------------------------ session files

NoFile == [kind |-> "nofile"]
\* A file on which open() or json.load() raises, or whose JSON is not the
\* object the rebuilder's lookups expect.
Malformed == [kind |-> "malformed"]

Part(text) == [text |-> text]
Request(parts, timestamp) == [parts |-> parts, timestamp |-> timestamp]
Doc(requests, loc) ==
  [kind |-> "json", requests |-> requests, initialLocation |-> loc]

\* [p.get("text", "") for p in parts if "text" in p]
RECURSIVE TextParts(_)
TextParts(parts) ==
  IF parts = <<>> THEN <<>>
  ELSE IF Head(parts).text # Absent
       THEN <<Head(parts).text[1]>> \o TextParts(Tail(parts))
       ELSE TextParts(Tail(parts))

\* A faulty variant: the ellipsis is added to the first 100 characters.
TruncateLate(t) == IF Len(t) > TitleMax THEN Prefix(t, TitleMax) \o ELLIPSIS ELSE t
\* if len(title) > 100: title = title[:97] + "..."
Truncate(t) == IF Len(t) > TitleMax THEN Prefix(t, TitleKeep) \o ELLIPSIS ELSE t

\* The title of a session with at least one request.
TitleOf(first_request) ==
  IF first_request.parts = Absent THEN UNTITLED
  ELSE LET text_parts == TextParts(first_request.parts[1])
       IN IF text_parts = <<>> THEN UNTITLED
          ELSE LET title == Truncate(Strip(text_parts[1]))
               IN IF title = <<>> THEN UNTITLED ELSE title

\* last_request.get("timestamp", 0)
LastMessageDate(requests) ==
  LET last_request == requests[Len(requests)]
  IN IF last_request.timestamp = Absent THEN 0 ELSE last_request.timestamp[1]

\* The index entry the rebuilder emits for a parsed session file.
MakeEntry(session_id, session_data) ==
  LET nonempty == session_data.requests # <<>>
  IN [sessionId |-> session_id,
      title |-> IF nonempty THEN TitleOf(session_data.requests[1]) ELSE UNTITLED,
      lastMessageDate |-> IF nonempty THEN LastMessageDate(session_data.requests) ELSE 0,
      isImported |-> FALSE,
      initialLocation |-> IF session_data.initialLocation = Absent
                          THEN "panel" ELSE session_data.initialLocation[1],
      isEmpty |-> ~nonempty]

\* ------------------------------------------------------------ index record

NoRow == [kind |-> "norow"]
\* A row whose value json.loads() rejects or that is no JSON object.
BadRow == [kind |-> "bad"]
\* {version, entries}: entries is a dict, kept as the sequence of its items in
\* insertion order (the order json.dumps writes them in).
IndexRow(version, entries) ==
  [kind |-> "index", version |-> version, entries |-> entries]
Item(k, v) == [key |-> k, value |-> v]

\* index.get("entries", {}), and {} when the row is missing or unreadable
EntriesOf(row) == IF row.kind = "index" THEN row.entries ELSE <<>>

Keys(entries) == {entries[i].key : i \in 1..Len(entries)}

HasKey(entries, k) == k \in Keys(entries)

\* entries[k]
Get(entries, k) ==
  entries[CHOOSE i \in 1..Len(entries) : entries[i].key = k].value

\* A faulty variant: an assignment always adds an item.
DictSetAppend(entries, k, v) == Append(entries, Item(k, v))
\* entries[k] = v: a present key keeps its position, a new key goes last
DictSet(entries, k, v) ==
  IF HasKey(entries, k)
  THEN [i \in 1..Len(entries) |->
          IF entries[i].key = k THEN Item(k, v) ELSE entries[i]]
  ELSE Append(entries, Item(k, v))

\* sorted(s)
RECURSIVE Sorted(_)
Sorted(S) ==
  IF S = {} THEN <<>>
  ELSE LET m == CHOOSE x \in S : \A y \in S : x <= y
       IN <<m>> \o Sorted(S \ {m})

\* ------------------------------------------------------- workspace folders

\* A folder path: an optional file:// prefix and the path's components.
Path(uri, comps) == [uri |-> uri, comps |-> comps]

\* workspace.json
NoMeta == [kind |-> "absent"]
BadMeta == [kind |-> "malformed"]
FolderStr(p) == [kind |-> "folder_str", path |-> p]
FolderObj(p) == [kind |-> "folder_obj", path |-> p]
WorkspaceFile(p) == [kind |-> "workspace", path |-> p]

\* WorkspaceInfo.folder as __init__ reads it from workspace.json
FolderOf(meta) ==
  IF meta.kind \in {"folder_str", "folder_obj"} THEN Some(meta.path) ELSE Absent

\* str.lower() on the component names the model uses
Lower(name) ==
  CASE name \in {"proj", "Proj", "PROJ"} -> "proj"
    [] name \in {"other", "Other"} -> "other"
    [] OTHER -> name

\* Path(folder_path).name after the file:// prefix is removed; "" for a
\* path with no component
extract_project_name(folder) ==
  IF folder = Absent THEN Absent
  ELSE LET comps == folder[1].comps
       IN Some(IF comps = <<>> THEN "" ELSE comps[Len(comps)])

\* A faulty variant: the names are compared as they are.
folders_matchCase(folder1, folder2) ==
  /\ folder1 # Absent /\ folder2 # Absent
  /\ extract_project_name(folder1)[1] = extract_project_name(folder2)[1]
folders_match(folder1, folder2) ==
  IF folder1 = Absent \/ folder2 = Absent THEN FALSE
  ELSE LET name1 == extract_project_name(folder1)[1]
           name2 == extract_project_name(folder2)[1]
       IN IF name1 = "" \/ name2 = "" THEN FALSE
          ELSE Lower(name1) = Lower(name2)

\* ------------------------------------------------------------------- state

VARIABLES
  meta,      \* meta[w]: the workspace.json of workspace w
  disk,      \* disk[w][s]: the file chatSessions/<s>.json of w, or NoFile
  dbStatus,  \* dbStatus[w]: state.vscdb is "missing", "unwritable" or "ok"
  dbRow,     \* dbRow[w]: the row chat.ChatSessionStore.index of state.vscdb
  backups,   \* backups[w][t]: the file state.vscdb.backup.<t>, or NoBackup
  now,       \* the clock, in ticks
  info,      \* info[w]: the WorkspaceInfo object of w built by the last scan
  rp,        \* the repair_workspace call in progress, and its result
  cli,       \* the command line and the driver's position and locals
  start,     \* the files as they were when the current run or call began
  hist,      \* hist[w]: the rows left by the last two non-dry repairs of w
  calls,     \* repair_workspace calls made by the library-level driver
  probe      \* the arguments and the return value of a function called alone

vars == <<meta, disk, dbStatus, dbRow, backups, now, info, rp, cli, start,
          hist, calls, probe>>

\* No function has been called alone.
NoProbe == [fn |-> "none"]

NoBackup == [kind |-> "nobackup"]

\* strftime('%Y%m%d_%H%M%S'): the clock reading to the second
Stamp(t) == t \div TicksPerSecond
Stamps == 0..Stamp(MaxTick)

\* ---------------------------------------------------------------- the scan

NotScanned ==
  [scanned |-> FALSE, sessions_on_disk |-> {}, sessions_in_index |-> {}]

\* WorkspaceInfo.__init__: the session IDs on disk and in the index
Scan(w) ==
  [scanned |-> TRUE,
   sessions_on_disk |-> {s \in SessionIds : disk[w][s] # NoFile},
   sessions_in_index |->
     IF dbStatus[w] = "missing" THEN {} ELSE Keys(EntriesOf(dbRow[w]))]

missing_from_index(ws) == ws.sessions_on_disk \ ws.sessions_in_index
orphaned_in_index(ws) == ws.sessions_in_index \ ws.sessions_on_disk
needs_repair(ws) ==
  missing_from_index(ws) # {} \/ orphaned_in_index(ws) # {}
has_sessions(ws) == ws.sessions_on_disk # {}

\* -------------------------------------------------------- repair_workspace

NoResult ==
  [success |-> FALSE, sessions_restored |-> 0, sessions_removed |-> 0,
   error |-> Absent, restored_sessions |-> <<>>]

\* A faulty variant: the rebuild always starts from no entries.
StartEntriesNone(w, remove_orphans) == <<>>
\* A faulty variant: the existing entries are kept also when orphans are removed.
StartEntriesKeepAll(w, remove_orphans) ==
  IF dbStatus[w] # "missing" THEN EntriesOf(dbRow[w]) ELSE <<>>
\* entries before the loop: the existing ones unless orphans are removed
StartEntries(w, remove_orphans) ==
  IF ~remove_orphans /\ dbStatus[w] # "missing"
  THEN EntriesOf(dbRow[w]) ELSE <<>>

\* Whether the body of the per-session try block completes for this file.
Parses(file) == file.kind = "json"

\* The loop over sorted(workspace.sessions_on_disk): acc holds entries and
\* result['restored_sessions'].
RECURSIVE RebuildLoop(_, _, _, _)
RebuildLoop(w, ws, ids, acc) ==
  IF ids = <<>> THEN acc
  ELSE LET session_id == Head(ids)
           file == disk[w][session_id]
       IN IF Parses(file)
          THEN LET entry == MakeEntry(session_id, file)
               IN RebuildLoop(w, ws, Tail(ids),
                    [entries |-> DictSet(acc.entries, session_id, entry),
                     restored |->
                       IF session_id \in missing_from_index(ws)
                       THEN Append(acc.restored,
                                   [id |-> session_id, title |-> entry.title,
                                    date |-> entry.lastMessageDate])
                       ELSE acc.restored])
          ELSE RebuildLoop(w, ws, Tail(ids), acc)

\* Faulty variants: the loop visits only the sessions missing from the index, or only
\* the ones already in it.
LoopOrderMissingOnly(ws) == Sorted(ws.sessions_on_disk \ ws.sessions_in_index)
LoopOrderIndexedOnly(ws) == Sorted(ws.sessions_on_disk \cap ws.sessions_in_index)
\* The ids the loop visits, in order: sorted(workspace.sessions_on_disk)
LoopOrder(ws) == Sorted(ws.sessions_on_disk)

\* Lines 241-311: the rebuilt entries and the restored-session summaries.
Rebuild(w, ws, remove_orphans) ==
  RebuildLoop(w, ws, LoopOrder(ws),
              [entries |-> StartEntries(w, remove_orphans), restored |-> <<>>])

\* Lines 336-343: the result of a call that reached the end of the try block.
Succeeded(ws, remove_orphans, restored) ==
  [success |-> TRUE,
   sessions_restored |-> Cardinality(missing_from_index(ws)),
   sessions_removed |->
     IF remove_orphans THEN Cardinality(orphaned_in_index(ws)) ELSE 0,
   error |-> Absent,
   restored_sessions |-> restored]

\* Lines 345-346: the result of a call whose try block raised.
Failed(restored, e) ==
  [NoResult EXCEPT !.error = Some(e), !.restored_sessions = restored]

RpIdle ==
  [pc |-> "idle", w |-> "A", dry_run |-> FALSE, remove_orphans |-> FALSE,
   entries |-> <<>>, restored |-> <<>>, result |-> NoResult,
   pre |-> NoRow, backup_path |-> Absent, wrote |-> FALSE]

\* A faulty variant: the writer runs in dry-run mode too.
WriterRunsAlways(dry_run) == TRUE
\* Whether the writer runs: if not dry_run
WriterRuns(dry_run) == ~dry_run

\* repair_workspace up to the writer: the call's locals after lines 231-311,
\* and the whole call when the writer does not run.
BeginRepair(w, ws, dry_run, remove_orphans) ==
  LET built == Rebuild(w, ws, remove_orphans)
  IN [RpIdle EXCEPT
        !.pc = IF WriterRuns(dry_run) THEN "backup" ELSE "return",
        !.w = w, !.dry_run = dry_run, !.remove_orphans = remove_orphans,
        !.entries = built.entries, !.restored = built.restored,
        !.pre = dbRow[w],
        !.result = IF WriterRuns(dry_run) THEN NoResult
                   ELSE Succeeded(ws, remove_orphans, built.restored)]

\* The row a completed non-dry repair leaves, kept for the last two repairs.
NoHist == [valid |-> FALSE, remove_orphans |-> FALSE, out |-> NoRow]
Completed(w, row) ==
  [hist EXCEPT ![w] = [prev |-> @.cur,
                       cur |-> [valid |-> TRUE,
                                remove_orphans |-> rp.remove_orphans,
                                out |-> row]]]

\* A faulty variant: the copy is taken after the index row is replaced.
CopiedDbAfterWrite(w) == IndexRow(1, rp.entries)
\* What shutil.copy2(workspace.db_path, backup_path) copies.
CopiedDb(w) == dbRow[w]

\* Lines 315-316: the backup.  copy2 raises when state.vscdb is missing.
RepairBackup ==
  /\ rp.pc = "backup"
  /\ IF dbStatus[rp.w] = "missing"
     THEN /\ rp' = [rp EXCEPT !.pc = "return",
                              !.result = Failed(rp.restored, "ENOENT")]
          /\ hist' = Completed(rp.w, dbRow[rp.w])
          /\ UNCHANGED backups
     ELSE /\ backups' = [backups EXCEPT ![rp.w][Stamp(now)] = CopiedDb(rp.w)]
          /\ rp' = [rp EXCEPT !.pc = "write",
                              !.backup_path = Some(Stamp(now))]
          /\ UNCHANGED hist
  /\ UNCHANGED <<probe, meta, disk, dbStatus, dbRow, now, info, cli, start, calls>>

\* A faulty variant: entries are stored one by one, and all but the last are
\* in place when the exception is raised.
RowAfterFailureSome(w, entries) ==
  IndexRow(1, SubSeq(entries, 1, Len(entries) - 1))
\* The row stored once the INSERT OR REPLACE of the whole value has raised:
\* the transaction is not committed and the row is as it was.
RowAfterFailure(w, entries) == dbRow[w]

\* Lines 319-343: INSERT OR REPLACE of the index row, commit, and the result.
\* The statement raises when the database cannot be written.
RepairWrite ==
  /\ rp.pc = "write"
  /\ IF dbStatus[rp.w] = "unwritable"
     THEN /\ rp' = [rp EXCEPT !.pc = "return",
                              !.result = Failed(rp.restored, "EWRITE")]
          /\ hist' = Completed(rp.w, dbRow[rp.w])
          /\ dbRow' = [dbRow EXCEPT
                         ![rp.w] = RowAfterFailure(rp.w, rp.entries)]
     ELSE /\ dbRow' = [dbRow EXCEPT ![rp.w] = IndexRow(1, rp.entries)]
          /\ rp' = [rp EXCEPT !.pc = "return", !.wrote = TRUE,
                      !.result = Succeeded(info[rp.w], rp.remove_orphans,
                                           rp.restored)]
          /\ hist' = Completed(rp.w, IndexRow(1, rp.entries))
  /\ UNCHANGED <<probe, meta, disk, dbStatus, backups, now, info, cli, start, calls>>

\* The clock advances.
Tick ==
  /\ now < MaxTick
  /\ now' = now + 1
  /\ UNCHANGED <<probe, meta, disk, dbStatus, dbRow, backups, info, rp, cli, start,
                 hist, calls>>

Snapshot == [disk |-> disk, dbRow |-> dbRow, backups |-> backups]

\* ------------------------------------------------- the library-level driver

CliLib ==
  [mode |-> "lib", target |-> NoSuchId, dry_run |-> FALSE, auto_yes |-> FALSE,
   remove_orphans |-> FALSE, recover_orphans |-> FALSE, pc |-> "lib",
   needs_repair |-> <<>>, sources |-> [s \in SessionIds |-> Absent],
   same_project |-> [s \in SessionIds |-> FALSE],
   resolved |-> FALSE, copied |-> {}, copy_failed |-> {},
   attempted |-> <<>>,
   i |-> 0, success_count |-> 0, fail_count |-> 0, exit |-> Absent,
   aborted |-> FALSE]

\* A caller scans workspace w and repairs it: ws = WorkspaceInfo(path);
\* repair_workspace(ws, dry_run, remove_orphans).
DirectCall(w, dry_run, remove_orphans) ==
  /\ cli.mode = "lib"
  /\ rp.pc \in {"idle", "return"}
  /\ calls < MaxCalls
  /\ LET ws == Scan(w)
     IN /\ has_sessions(ws) \/ needs_repair(ws)
        /\ info' = [info EXCEPT ![w] = ws]
        /\ rp' = BeginRepair(w, ws, dry_run, remove_orphans)
  /\ calls' = calls + 1
  /\ start' = Snapshot
  /\ UNCHANGED <<probe, meta, disk, dbStatus, dbRow, backups, now, cli, hist>>

\* ------------------------------------------------------------ initial files

Hello ==
  Doc(<<Request(Some(<<Part(Some(<<"H", "i">>))>>), Some(5))>>, Absent)
EmptyDoc == Doc(<<>>, Some("editor"))

\* An entry an earlier version of the index holds for session k.
StaleEntry(k) ==
  [sessionId |-> k, title |-> <<"O", "l", "d">>, lastMessageDate |-> 1,
   isImported |-> TRUE, initialLocation |-> "panel", isEmpty |-> FALSE]

RECURSIVE StaleEntries(_)
StaleEntries(keys) ==
  IF keys = <<>> THEN <<>>
  ELSE <<Item(Head(keys), StaleEntry(Head(keys)))>> \o StaleEntries(Tail(keys))

KeyOrders == {<<>>, <<1>>, <<2>>, <<1, 2>>, <<2, 1>>}

LibFiles == {NoFile, Malformed, Hello, EmptyDoc}
LibRows == {NoRow, BadRow} \cup {IndexRow(1, StaleEntries(ks)) : ks \in KeyOrders}

NoFiles == [s \in SessionIds |-> NoFile]
NoBackups == [t \in Stamps |-> NoBackup]

InitCommon ==
  /\ backups = [w \in Workspaces |-> NoBackups]
  /\ now = 0
  /\ info = [w \in Workspaces |-> NotScanned]
  /\ rp = RpIdle
  /\ hist = [w \in Workspaces |-> [prev |-> NoHist, cur |-> NoHist]]
  /\ calls = 0
  /\ start = Snapshot
  /\ probe = NoProbe

\* One workspace with session files, in every combination of file and index.
Init ==
  /\ meta = [w \in Workspaces |-> NoMeta]
  /\ \E files \in [SessionIds -> LibFiles] :
       disk = [w \in Workspaces |-> IF w = "A" THEN files ELSE NoFiles]
  /\ \E st \in {"missing", "unwritable", "ok"} :
       dbStatus = [w \in Workspaces |-> IF w = "A" THEN st ELSE "ok"]
  /\ \E row \in LibRows :
       dbRow = [w \in Workspaces |->
                  IF w = "A" /\ dbStatus[w] # "missing" THEN row ELSE NoRow]
  /\ cli = CliLib
  /\ InitCommon

Next ==
  \/ \E w \in Workspaces, dry_run \in BOOLEAN, remove_orphans \in BOOLEAN :
       DirectCall(w, dry_run, remove_orphans)
  \/ RepairBackup
  \/ RepairWrite
  \/ Tick

Spec == Init /\ [][Next]_vars

\* ------------------------------------------------------ the orphan resolver

\* find_orphan_in_other_workspaces: the first workspace of all_workspaces,
\* other than current, that has session_id on disk, with the same-project
\* flag; Absent when there is none.  infos holds the WorkspaceInfo objects.
\* A faulty variant: the current workspace is not skipped.
RECURSIVE find_orphan_in_any_workspace(_, _, _, _)
find_orphan_in_any_workspace(session_id, current, all_workspaces, infos) ==
  IF all_workspaces = <<>> THEN Absent
  ELSE LET ws == Head(all_workspaces)
       IN IF session_id \in infos[ws].sessions_on_disk
          THEN Some([workspace |-> ws,
                     same_project |-> folders_match(FolderOf(meta[current]),
                                                    FolderOf(meta[ws]))])
          ELSE find_orphan_in_any_workspace(session_id, current,
                                            Tail(all_workspaces), infos)
RECURSIVE find_orphan_in_other_workspaces(_, _, _, _)
find_orphan_in_other_workspaces(session_id, current, all_workspaces, infos) ==
  IF all_workspaces = <<>> THEN Absent
  ELSE LET ws == Head(all_workspaces)
       IN IF ws # current /\ session_id \in infos[ws].sessions_on_disk
          THEN Some([workspace |-> ws,
                     same_project |-> folders_match(FolderOf(meta[current]),
                                                    FolderOf(meta[ws]))])
          ELSE find_orphan_in_other_workspaces(session_id, current,
                                               Tail(all_workspaces), infos)

\* [x for x in seq if x in S]
RECURSIVE Filter(_, _)
Filter(seq, S) ==
  IF seq = <<>> THEN <<>>
  ELSE IF Head(seq) \in S THEN <<Head(seq)>> \o Filter(Tail(seq), S)
       ELSE Filter(Tail(seq), S)

\* scan_workspaces(): the directories that hold at least one session file,
\* in enumeration order.
scan_workspaces == Filter(ScanOrder, {w \in Workspaces : has_sessions(Scan(w))})

\* The WorkspaceInfo objects a scan builds.
ScanAll ==
  [w \in Workspaces |-> IF has_sessions(Scan(w)) THEN Scan(w) ELSE NotScanned]

\* --------------------------------------------------- the command-line drivers

Exit(code, aborted) ==
  [cli EXCEPT !.pc = "done", !.exit = Some(code), !.aborted = aborted]

\* main(), lines 793-817: the "Have you closed VS Code?" prompt.
Main ==
  /\ cli.pc = "main"
  /\ IF ~cli.dry_run /\ ~cli.auto_yes
     THEN \E yes \in BOOLEAN :
            cli' = IF yes THEN [cli EXCEPT !.pc = "scan"] ELSE Exit(1, TRUE)
     ELSE cli' = [cli EXCEPT !.pc = "scan"]
  /\ UNCHANGED <<probe, meta, disk, dbStatus, dbRow, backups, now, info, rp, start,
                 hist, calls>>

\* A faulty variant: the recovery block runs in dry-run mode too.
RecoversAlways(recover_orphans, recoverable, dry_run) ==
  recover_orphans /\ recoverable # {}
\* if recover_orphans and recoverable_orphans and not dry_run
Recovers(recover_orphans, recoverable, dry_run) ==
  recover_orphans /\ recoverable # {} /\ ~dry_run

\* repair_single_workspace, lines 410-500: the target is looked up and
\* scanned, its orphans are resolved and, when asked for, copied back.
SingleStart ==
  /\ cli.pc = "scan" /\ cli.mode = "single"
  /\ IF cli.target = NoSuchId
     THEN /\ cli' = Exit(1, TRUE)
          /\ UNCHANGED <<disk, info>>
     ELSE LET workspace == Scan(cli.target)
              infos == [ScanAll EXCEPT ![cli.target] = workspace]
              found == [s \in SessionIds |->
                          IF s \in orphaned_in_index(workspace)
                          THEN find_orphan_in_other_workspaces(
                                 s, cli.target, scan_workspaces, infos)
                          ELSE Absent]
              recoverable == {s \in SessionIds : found[s] # Absent}
              resolved ==
                [cli EXCEPT
                   !.resolved = TRUE,
                   !.sources = [s \in SessionIds |->
                                  IF found[s] = Absent THEN Absent
                                  ELSE Some(found[s][1].workspace)],
                   !.same_project = [s \in SessionIds |->
                                       found[s] # Absent
                                       /\ found[s][1].same_project]]
          IN IF ~needs_repair(workspace)
             THEN /\ cli' = Exit(0, FALSE)
                  /\ info' = infos
                  /\ UNCHANGED disk
             ELSE IF Recovers(cli.recover_orphans, recoverable, cli.dry_run)
             THEN \E ok \in SUBSET recoverable :
                    /\ disk' = [w \in Workspaces |->
                                  IF w = cli.target
                                  THEN [s \in SessionIds |->
                                          IF s \in ok
                                          THEN disk[found[s][1].workspace][s]
                                          ELSE disk[w][s]]
                                  ELSE disk[w]]
                    /\ info' = [infos EXCEPT ![cli.target].sessions_on_disk =
                                               @ \cup ok]
                    /\ cli' = [resolved EXCEPT !.pc = "confirm",
                                 !.copied = ok,
                                 !.copy_failed = recoverable \ ok]
             ELSE /\ cli' = [resolved EXCEPT !.pc = "confirm"]
                  /\ info' = infos
                  /\ UNCHANGED disk
  /\ UNCHANGED <<probe, meta, dbStatus, dbRow, backups, now, rp, start, hist, calls>>

\* repair_single_workspace, lines 502-516: the "Proceed with repair?" prompt
\* and the call of repair_workspace.
SingleConfirm ==
  /\ cli.pc = "confirm" /\ cli.mode = "single"
  /\ \E yes \in (IF ~cli.dry_run /\ ~cli.auto_yes THEN BOOLEAN ELSE {TRUE}) :
       IF yes
       THEN /\ rp' = BeginRepair(cli.target, info[cli.target], cli.dry_run,
                                 cli.remove_orphans)
            /\ cli' = [cli EXCEPT !.pc = "repairing",
                                  !.attempted = <<cli.target>>]
       ELSE /\ cli' = Exit(1, TRUE)
            /\ UNCHANGED rp
  /\ UNCHANGED <<probe, meta, disk, dbStatus, dbRow, backups, now, info, start, hist,
                 calls>>

\* repair_single_workspace, lines 518-547: the exit status.
SingleFinish ==
  /\ cli.pc = "repairing" /\ cli.mode = "single" /\ rp.pc = "return"
  /\ cli' = Exit(IF rp.result.success THEN 0 ELSE 1, FALSE)
  /\ UNCHANGED <<probe, meta, disk, dbStatus, dbRow, backups, now, info, rp, start,
                 hist, calls>>

\* Lines 595-634: recoverable_orphans after the loop over needs_repair; a
\* later workspace's finding replaces an earlier one for the same session.
RECURSIVE Resolve(_, _, _, _)
Resolve(todo, all_workspaces, infos, acc) ==
  IF todo = <<>> THEN acc
  ELSE LET ws == Head(todo)
       IN Resolve(Tail(todo), all_workspaces, infos,
            [s \in SessionIds |->
               LET found == IF s \in orphaned_in_index(infos[ws])
                            THEN find_orphan_in_other_workspaces(
                                   s, ws, all_workspaces, infos)
                            ELSE Absent
               IN IF found = Absent THEN acc[s] ELSE found])

\* Lines 657-664: the workspace a recoverable session is copied to: the
\* first of needs_repair that has it orphaned.
RECURSIVE RecoveryTarget(_, _, _)
RecoveryTarget(session_id, todo, infos) ==
  IF todo = <<>> THEN Absent
  ELSE IF session_id \in orphaned_in_index(infos[Head(todo)])
       THEN Some(Head(todo))
       ELSE RecoveryTarget(session_id, Tail(todo), infos)

\* A faulty variant: the failure count is ignored.
ExitStatusZero(fail_count) == 0
\* The exit status of a batch run that reached the end: line 766.
ExitStatus(fail_count) == IF fail_count = 0 THEN 0 ELSE 1

\* repair_all_workspaces, lines 571-694: the scan, the workspaces needing
\* repair, the orphan resolution and, when asked for, the recovery.
BatchStart ==
  /\ cli.pc = "scan" /\ cli.mode = "batch"
  /\ LET workspaces == scan_workspaces
         infos == ScanAll
         todo == Filter(workspaces,
                        {w \in Workspaces : needs_repair(infos[w])})
         found == Resolve(todo, workspaces, infos,
                          [s \in SessionIds |-> Absent])
         recoverable == {s \in SessionIds : found[s] # Absent}
         target == [s \in recoverable |-> RecoveryTarget(s, todo, infos)[1]]
         resolved ==
           [cli EXCEPT
              !.resolved = TRUE,
              !.needs_repair = todo,
              !.sources = [s \in SessionIds |->
                             IF found[s] = Absent THEN Absent
                             ELSE Some(found[s][1].workspace)],
              !.same_project = [s \in SessionIds |->
                                  found[s] # Absent
                                  /\ found[s][1].same_project]]
     IN IF todo = <<>>
        THEN /\ cli' = Exit(0, FALSE)
             /\ info' = infos
             /\ UNCHANGED disk
        ELSE IF Recovers(cli.recover_orphans, recoverable, cli.dry_run)
        THEN \E ok \in SUBSET recoverable :
               /\ disk' = [w \in Workspaces |->
                             [s \in SessionIds |->
                                IF s \in ok /\ target[s] = w
                                THEN disk[found[s][1].workspace][s]
                                ELSE disk[w][s]]]
               /\ info' = [w \in Workspaces |->
                             [infos[w] EXCEPT !.sessions_on_disk =
                                @ \cup {s \in ok : target[s] = w}]]
               /\ cli' = [resolved EXCEPT !.pc = "confirm", !.copied = ok,
                                          !.copy_failed = recoverable \ ok]
        ELSE /\ cli' = [resolved EXCEPT !.pc = "confirm"]
             /\ info' = infos
             /\ UNCHANGED disk
  /\ UNCHANGED <<probe, meta, dbStatus, dbRow, backups, now, rp, start, hist, calls>>

\* repair_all_workspaces, lines 696-713: the "Proceed with repair?" prompt.
BatchConfirm ==
  /\ cli.pc = "confirm" /\ cli.mode = "batch"
  /\ \E yes \in (IF ~cli.dry_run /\ ~cli.auto_yes THEN BOOLEAN ELSE {TRUE}) :
       cli' = IF yes THEN [cli EXCEPT !.pc = "loop", !.i = 1]
              ELSE Exit(1, TRUE)
  /\ UNCHANGED <<probe, meta, disk, dbStatus, dbRow, backups, now, info, rp, start,
                 hist, calls>>

\* Lines 715-720: the loop calls repair_workspace for the next workspace.
BatchCall ==
  /\ cli.pc = "loop" /\ cli.i <= Len(cli.needs_repair)
  /\ LET ws == cli.needs_repair[cli.i]
     IN /\ rp' = BeginRepair(ws, info[ws], cli.dry_run, cli.remove_orphans)
        /\ cli' = [cli EXCEPT !.pc = "repairing",
                              !.attempted = Append(@, ws)]
  /\ UNCHANGED <<probe, meta, disk, dbStatus, dbRow, backups, now, info, start, hist,
                 calls>>

\* Lines 722-733: the loop counts the result.
BatchCollect ==
  /\ cli.pc = "repairing" /\ cli.mode = "batch" /\ rp.pc = "return"
  /\ cli' = [cli EXCEPT
               !.pc = "loop", !.i = @ + 1,
               !.success_count = IF rp.result.success THEN @ + 1 ELSE @,
               !.fail_count = IF rp.result.success THEN @ ELSE @ + 1]
  /\ UNCHANGED <<probe, meta, disk, dbStatus, dbRow, backups, now, info, rp, start,
                 hist, calls>>

\* Line 766: the exit status after the loop.
BatchFinish ==
  /\ cli.pc = "loop" /\ cli.i > Len(cli.needs_repair)
  /\ cli' = Exit(ExitStatus(cli.fail_count), FALSE)
  /\ UNCHANGED <<probe, meta, disk, dbStatus, dbRow, backups, now, info, rp, start,
                 hist, calls>>

\* ----------------------------------------------- initial files, command line

ProjLower == Path(FALSE, <<"u", "proj">>)
ProjUpper == Path(TRUE, <<"v", "Proj">>)
OtherDir == Path(FALSE, <<"u", "other">>)

Files(f1, f2) == [s \in SessionIds |-> IF s = 1 THEN f1 ELSE f2]

\* The workspace directories a storage root is populated with: healthy; with
\* an orphaned entry; without a database; with a malformed file and a
\* database that cannot be written; without session files; with an orphaned
\* entry and a session missing from the index.
WsConfigs ==
  {[meta |-> FolderStr(ProjLower), files |-> Files(Hello, Hello),
    status |-> "ok", row |-> IndexRow(1, StaleEntries(<<1, 2>>))],
   [meta |-> FolderObj(ProjUpper), files |-> Files(NoFile, Hello),
    status |-> "ok", row |-> IndexRow(1, StaleEntries(<<1, 2>>))],
   [meta |-> FolderStr(OtherDir), files |-> Files(Hello, NoFile),
    status |-> "missing", row |-> NoRow],
   [meta |-> WorkspaceFile(OtherDir), files |-> Files(Malformed, Hello),
    status |-> "unwritable", row |-> IndexRow(1, StaleEntries(<<1>>))],
   [meta |-> FolderStr(ProjLower), files |-> Files(NoFile, NoFile),
    status |-> "ok", row |-> IndexRow(1, StaleEntries(<<1>>))],
   [meta |-> BadMeta, files |-> Files(EmptyDoc, NoFile),
    status |-> "ok", row |-> IndexRow(1, StaleEntries(<<2>>))]}

\* The command lines: every flag combination, for all workspaces, for one
\* workspace, and for an id that is no directory.
CommandLines ==
  {[CliLib EXCEPT !.mode = m[1], !.target = m[2], !.pc = "main",
                  !.dry_run = d, !.auto_yes = y, !.remove_orphans = r,
                  !.recover_orphans = c] :
     m \in {<<"batch", NoSuchId>>, <<"single", "A">>, <<"single", NoSuchId>>},
     d \in BOOLEAN, y \in BOOLEAN, r \in BOOLEAN, c \in BOOLEAN}

InitCli ==
  /\ \E cfg \in [Workspaces -> WsConfigs] :
       /\ meta = [w \in Workspaces |-> cfg[w].meta]
       /\ disk = [w \in Workspaces |-> cfg[w].files]
       /\ dbStatus = [w \in Workspaces |-> cfg[w].status]
       /\ dbRow = [w \in Workspaces |-> cfg[w].row]
  /\ cli \in CommandLines
  /\ InitCommon

NextCli ==
  \/ Main
  \/ SingleStart
  \/ SingleConfirm
  \/ SingleFinish
  \/ BatchStart
  \/ BatchConfirm
  \/ BatchCall
  \/ BatchCollect
  \/ BatchFinish
  \/ RepairBackup
  \/ RepairWrite

SpecCli == InitCli /\ [][NextCli]_vars

\* ------------------------------------------- the resolver, called alone

RootDir == Path(TRUE, <<>>)

\* The workspace.json files the resolver is called over: none, a workspace
\* file, folders whose names differ in case only, another folder, and a
\* folder path that has no component.
ResolverMetas ==
  {NoMeta, WorkspaceFile(ProjLower), FolderStr(ProjLower),
   FolderObj(ProjUpper), FolderStr(OtherDir), FolderStr(RootDir)}

ResolverFiles ==
  {Files(NoFile, NoFile), Files(Hello, NoFile), Files(NoFile, Hello)}

\* The orders a list of the workspaces can have.
ListOrders ==
  {o \in [1..Cardinality(Workspaces) -> Workspaces] :
     \A w \in Workspaces : \E i \in DOMAIN o : o[i] = w}

InitResolver ==
  /\ meta \in [Workspaces -> ResolverMetas]
  /\ disk \in [Workspaces -> ResolverFiles]
  /\ dbStatus = [w \in Workspaces |-> "ok"]
  /\ dbRow = [w \in Workspaces |-> NoRow]
  /\ cli = CliLib
  /\ InitCommon

\* A call of find_orphan_in_other_workspaces over WorkspaceInfo objects of
\* all the workspaces.
FindOrphan(session_id, current, all_workspaces) ==
  /\ probe = NoProbe
  /\ info' = [w \in Workspaces |-> Scan(w)]
  /\ probe' = [fn |-> "find_orphan_in_other_workspaces",
               session_id |-> session_id, current |-> current,
               all_workspaces |-> all_workspaces,
               result |-> find_orphan_in_other_workspaces(
                            session_id, current, all_workspaces, info')]
  /\ UNCHANGED <<meta, disk, dbStatus, dbRow, backups, now, rp, cli, start,
                 hist, calls>>

NextResolver ==
  \E session_id \in SessionIds, current \in Workspaces,
     all_workspaces \in ListOrders :
    FindOrphan(session_id, current, all_workspaces)

SpecResolver == InitResolver /\ [][NextResolver]_vars

\* ------------------------------------------ the title derivation, alone

\* The longest first text, and the most whitespace on either side of it.
MaxTextLen == 103
MaxPad == 2

\* n characters none of which is whitespace
Body(n) == [i \in 1..n |-> IF i % 3 = 1 THEN "a" ELSE IF i % 3 = 2 THEN "b" ELSE "c"]
\* n whitespace characters
Pad(n) == [i \in 1..n |-> IF i % 2 = 1 THEN " " ELSE "\n"]

NoTextPart == Part(Absent)
OtherText == Part(Some(<<"z", "z">>))

\* Session files by the place of the text in them: no requests; a first
\* request without message parts; parts none of which has a text; the text
\* in the first part; after a part without text; before another text; and
\* in the first of two requests.
Shapes ==
  {"no_requests", "no_parts", "no_text", "first", "after_other",
   "before_text", "two_requests"}

SessionData(shape, text) ==
  CASE shape = "no_requests" -> Doc(<<>>, Absent)
    [] shape = "no_parts" -> Doc(<<Request(Absent, Some(5))>>, Absent)
    [] shape = "no_text" -> Doc(<<Request(Some(<<NoTextPart>>), Some(5))>>, Absent)
    [] shape = "first" ->
         Doc(<<Request(Some(<<Part(Some(text))>>), Some(5))>>, Absent)
    [] shape = "after_other" ->
         Doc(<<Request(Some(<<NoTextPart, Part(Some(text))>>), Some(5))>>,
             Absent)
    [] shape = "before_text" ->
         Doc(<<Request(Some(<<Part(Some(text)), OtherText>>), Some(5))>>,
             Absent)
    [] shape = "two_requests" ->
         Doc(<<Request(Some(<<Part(Some(text))>>), Some(5)),
               Request(Some(<<OtherText>>), Absent)>>, Absent)

InitTitle ==
  /\ meta = [w \in Workspaces |-> NoMeta]
  /\ disk = [w \in Workspaces |-> NoFiles]
  /\ dbStatus = [w \in Workspaces |-> "ok"]
  /\ dbRow = [w \in Workspaces |-> NoRow]
  /\ cli = CliLib
  /\ InitCommon

\* Lines 263-300 on one parsed session file: the entry built for it.
BuildEntry(session_id, shape, lead, n, trail) ==
  /\ probe = NoProbe
  /\ LET session_data == SessionData(shape, Pad(lead) \o Body(n) \o Pad(trail))
     IN probe' = [fn |-> "entry", shape |-> shape, lead |-> lead,
                  body |-> n, trail |-> trail,
                  result |-> MakeEntry(session_id, session_data)]
  /\ UNCHANGED <<meta, disk, dbStatus, dbRow, backups, now, info, rp, cli,
                 start, hist, calls>>

NextTitle ==
  \E session_id \in SessionIds, shape \in Shapes, lead \in 0..MaxPad,
     n \in 0..MaxTextLen, trail \in 0..MaxPad :
    BuildEntry(session_id, shape, lead, n, trail)

SpecTitle == InitTitle /\ [][NextTitle]_vars

\* ================================================================== claims

\* The index keys stored for w, and the session IDs with a file in w.
StoredKeys(w) ==
  IF dbStatus[w] = "missing" THEN {} ELSE Keys(EntriesOf(dbRow[w]))
OnDisk(w) == {s \in SessionIds : disk[w][s] # NoFile}
Parsable(w) == {s \in SessionIds : Parses(disk[w][s])}

Returned == rp.pc = "return"

\* C1 (as stated): after repair_workspace(W, dry_run=False,
\* remove_orphans=True) returns, the stored index keys equal the session IDs
\* that have a file in W's session directory.  Stated here for the calls that
\* return success=true only, which the claim includes.
C1_KeysEqualOnDisk ==
  (Returned /\ ~rp.dry_run /\ rp.remove_orphans /\ rp.result.success)
    => StoredKeys(rp.w) = OnDisk(rp.w)

\* C1 (amended): after such a call returns with success=true, the stored
\* index keys equal the session IDs whose file in W's session directory
\* parses.
C1_KeysEqualParsable ==
  (Returned /\ ~rp.dry_run /\ rp.remove_orphans /\ rp.result.success)
    => StoredKeys(rp.w) = Parsable(rp.w)

C1_Witness ==
  /\ Returned /\ ~rp.dry_run /\ rp.remove_orphans /\ rp.result.success
  /\ OnDisk(rp.w) \ Parsable(rp.w) # {}
  /\ Parsable(rp.w) # {}
  /\ Keys(EntriesOf(rp.pre)) # Parsable(rp.w)

\* C2 (as stated): after repair_workspace(W, dry_run=False,
\* remove_orphans=False) returns, every session ID with a file on disk is a
\* key of the stored index.  Stated here for the calls that return
\* success=true only, which the claim includes.
C2_OnDiskIndexed ==
  (Returned /\ ~rp.dry_run /\ ~rp.remove_orphans /\ rp.result.success)
    => OnDisk(rp.w) \subseteq StoredKeys(rp.w)

\* C2 (amended): after such a call returns with success=true, every session
\* ID whose file on disk parses is a key of the stored index.
C2_ParsableIndexed ==
  (Returned /\ ~rp.dry_run /\ ~rp.remove_orphans /\ rp.result.success)
    => Parsable(rp.w) \subseteq StoredKeys(rp.w)

C2_Witness ==
  /\ Returned /\ ~rp.dry_run /\ ~rp.remove_orphans /\ rp.result.success
  /\ Parsable(rp.w) \ Keys(EntriesOf(rp.pre)) # {}
  /\ Keys(EntriesOf(rp.pre)) \ OnDisk(rp.w) # {}

\* C4: in a non-dry-run repair the backup is taken before the index row is
\* written and holds the database as it was before the update; the row is
\* never changed without that backup; a dry run creates no backup.
C4_BackupBeforeWrite ==
  /\ rp.pc = "write" =>
       /\ rp.backup_path # Absent
       /\ ~rp.wrote
       /\ dbRow[rp.w] = rp.pre
       /\ backups[rp.w][rp.backup_path[1]] = rp.pre
  /\ (rp.pc # "idle" /\ (rp.wrote \/ dbRow[rp.w] # rp.pre)) =>
       /\ ~rp.dry_run
       /\ rp.backup_path # Absent
       /\ backups[rp.w][rp.backup_path[1]] = rp.pre
  /\ (rp.pc # "idle" /\ rp.dry_run) =>
       /\ backups = start.backups
       /\ rp.backup_path = Absent

C4_Witness ==
  /\ Returned /\ rp.wrote /\ dbRow[rp.w] # rp.pre
  /\ rp.pre.kind = "index"

\* C5: a backup file, once created, is never overwritten by a later repair:
\* its content stays as it was, whatever the clock times of the repairs.
C5_BackupNeverOverwritten ==
  [][\A w \in Workspaces, t \in Stamps :
       backups[w][t] # NoBackup => backups'[w][t] = backups[w][t]]_vars

\* C6: two successive non-dry-run repairs of a workspace with the same
\* remove-orphans setting and no session file changed in between leave the
\* same index row.
C6_Idempotent ==
  \A w \in Workspaces :
    (/\ hist[w].prev.valid /\ hist[w].cur.valid
     /\ hist[w].prev.remove_orphans = hist[w].cur.remove_orphans)
      => hist[w].cur.out = hist[w].prev.out

C6_Witness ==
  /\ Returned /\ rp.wrote
  /\ hist[rp.w].prev.valid
  /\ hist[rp.w].prev.remove_orphans = hist[rp.w].cur.remove_orphans
  /\ ~rp.remove_orphans
  /\ Len(EntriesOf(hist[rp.w].cur.out)) = 2
  /\ Keys(EntriesOf(hist[rp.w].cur.out)) \ OnDisk(rp.w) # {}
  /\ start.dbRow[rp.w] = hist[rp.w].prev.out

\* C7 (as stated): for either setting of remove-orphans and every prior
\* index, the mapping repair_workspace builds has no entry for a session ID
\* whose file is malformed.
C7_NoEntryForMalformed ==
  rp.pc # "idle" =>
    \A s \in OnDisk(rp.w) \ Parsable(rp.w) : ~HasKey(rp.entries, s)

\* C7 (amended): the mapping has no entry for a session ID whose file is
\* malformed, unless remove-orphans is off and the prior index had an entry
\* for that ID, which is then kept as it was; every session whose file parses
\* has its regenerated entry, and the call returns a result.
C7_MalformedNotRegenerated ==
  rp.pc # "idle" =>
    /\ \A s \in OnDisk(rp.w) \ Parsable(rp.w) :
         HasKey(rp.entries, s) =>
           /\ ~rp.remove_orphans
           /\ HasKey(EntriesOf(rp.pre), s)
           /\ Get(rp.entries, s) = Get(EntriesOf(rp.pre), s)
    /\ \A s \in Parsable(rp.w) :
         /\ HasKey(rp.entries, s)
         /\ Get(rp.entries, s) = MakeEntry(s, disk[rp.w][s])
    /\ Returned => (rp.result.success \/ rp.result.error # Absent)

C7_Witness ==
  /\ Returned /\ rp.result.success
  /\ \E s \in OnDisk(rp.w) \ Parsable(rp.w) :
       /\ ~HasKey(rp.entries, s)
       /\ HasKey(EntriesOf(rp.pre), s)
  /\ Parsable(rp.w) # {}

\* The files as they were when the run began.
OnDisk0(w) == {s \in SessionIds : start.disk[w][s] # NoFile}
Keys0(w) ==
  IF dbStatus[w] = "missing" THEN {} ELSE Keys(EntriesOf(start.dbRow[w]))
FilesUntouched ==
  /\ disk = start.disk
  /\ dbRow = start.dbRow
  /\ backups = start.backups

\* C3: a dry run, whatever the other flags and the mode, leaves every
\* database row, every backup and every session file as it was.
C3_DryRunChangesNothing == cli.dry_run => FilesUntouched

C3_Witness ==
  /\ cli.dry_run /\ cli.recover_orphans /\ cli.remove_orphans
  /\ cli.pc = "done" /\ cli.exit = Some(0)
  /\ \E s \in SessionIds : cli.sources[s] # Absent
  /\ Returned /\ rp.result.sessions_restored > 0
  /\ IndexRow(1, rp.entries) # dbRow[rp.w]

\* X is an index entry of a with no file in a; b has X's file; b is the
\* first workspace in scan order, a aside, that has X's file.
Orphan0(a, X) == X \in Keys0(a) \ OnDisk0(a)
Position(w) == CHOOSE i \in 1..Len(ScanOrder) : ScanOrder[i] = w
FirstSource(b, a, X) ==
  /\ b # a /\ X \in OnDisk0(b)
  /\ \A c \in Workspaces \ {a, b} :
       X \in OnDisk0(c) => Position(b) < Position(c)
\* The last components of both folders are known and equal ignoring case.
FolderName(w) ==
  IF meta[w].kind \in {"folder_str", "folder_obj"}
     /\ meta[w].path.comps # <<>>
  THEN Some(Lower(meta[w].path.comps[Len(meta[w].path.comps)])) ELSE Absent
SameFolderName(a, b) ==
  FolderName(a) # Absent /\ FolderName(a) = FolderName(b)

SingleResolved == cli.mode = "single" /\ cli.resolved

\* C8 (as stated): in a single-workspace run on A, for an orphan X of A and
\* any other workspace B that has X's file and a folder name matching A's
\* ignoring case, the resolver reports B with same_project=true, and a
\* non-dry-run run with recover-orphans leaves X's file in A, X in A's
\* on-disk set and X not orphaned.  Stated here for the runs in which no
\* copy failed, which the claim includes.
C8_RecoveredFromMatching ==
  (SingleResolved /\ cli.copy_failed = {}) =>
    \A X \in SessionIds, B \in Workspaces \ {cli.target} :
      (Orphan0(cli.target, X) /\ X \in OnDisk0(B)
       /\ SameFolderName(cli.target, B)) =>
        /\ cli.sources[X] = Some(B)
        /\ cli.same_project[X]
        /\ (cli.recover_orphans /\ ~cli.dry_run) =>
             /\ disk[cli.target][X] = start.disk[B][X]
             /\ X \in info[cli.target].sessions_on_disk
             /\ X \notin orphaned_in_index(info[cli.target])

\* C8 (amended): when B is the first workspace in scan order, other than A,
\* that has X's file, the resolver reports B, with same_project=true when the
\* folder names match ignoring case; a non-dry-run single-workspace run with
\* recover-orphans then attempts the copy, and when the copy does not fail
\* X's file is in A, X is in A's on-disk set and not orphaned, and the repair
\* that follows regenerates X's entry from the copied file (if it parses).
C8_RecoveredFromFirst ==
  SingleResolved =>
    \A X \in SessionIds, B \in Workspaces \ {cli.target} :
      (Orphan0(cli.target, X) /\ FirstSource(B, cli.target, X)) =>
        /\ cli.sources[X] = Some(B)
        /\ SameFolderName(cli.target, B) => cli.same_project[X]
        /\ (cli.recover_orphans /\ ~cli.dry_run) =>
             /\ X \in cli.copied \cup cli.copy_failed
             /\ X \in cli.copied =>
                  /\ disk[cli.target][X] = start.disk[B][X]
                  /\ X \in info[cli.target].sessions_on_disk
                  /\ X \notin orphaned_in_index(info[cli.target])
                  /\ (cli.attempted # <<>> /\ Parses(disk[cli.target][X])) =>
                       /\ HasKey(rp.entries, X)
                       /\ Get(rp.entries, X) = MakeEntry(X, disk[cli.target][X])

C8_Witness ==
  /\ SingleResolved /\ cli.recover_orphans /\ ~cli.dry_run
  /\ cli.pc = "done" /\ cli.exit = Some(0) /\ rp.wrote
  /\ \E X \in SessionIds, B \in Workspaces \ {cli.target} :
       /\ Orphan0(cli.target, X) /\ FirstSource(B, cli.target, X)
       /\ SameFolderName(cli.target, B)
       /\ meta[B].path.comps # meta[cli.target].path.comps
       /\ cli.same_project[X]
       /\ X \in cli.copied
       /\ Get(EntriesOf(dbRow[cli.target]), X) = MakeEntry(X, start.disk[B][X])

\* C9: when the operator declines a prompt or the workspace id is not
\* found, the run ends with a non-zero status and no database row, backup
\* or session file has been created or changed.
C9_AbortTakesNoAction ==
  cli.aborted => (cli.exit = Some(1) /\ FilesUntouched)

\* The workspaces a batch run has to repair, judged from the files as they
\* were at the scan; the repairs that cannot succeed.
NeedsRepair0(w) == OnDisk0(w) # {} /\ OnDisk0(w) # Keys0(w)
CannotWrite(w) == ~cli.dry_run /\ dbStatus[w] # "ok"
Range(seq) == {seq[i] : i \in 1..Len(seq)}
BatchDone == cli.mode = "batch" /\ cli.pc = "done"

\* C10 (as stated): a failing repair returns success=false with an error,
\* the batch goes on to every other workspace needing repair, and the batch
\* run's exit status is non-zero exactly when at least one repair failed.
\* Stated here for the batch runs that got past the scan.
C10_ExitNonZeroIffFailed ==
  /\ (Returned /\ ~rp.result.success) => rp.result.error # Absent
  /\ (BatchDone /\ cli.resolved) =>
       (cli.exit # Some(0) <=> \E w \in Range(cli.attempted) : CannotWrite(w))

\* C10 (amended): a failing repair returns success=false with an error and
\* raises nothing; a batch run that is not aborted at a prompt attempts every
\* workspace needing repair, whatever failed before, and exits non-zero
\* exactly when at least one repair failed (a declined prompt exits with
\* status 1 as well, with no repair attempted).
C10_FailuresContained ==
  /\ Returned =>
       /\ rp.result.success <=> ~CannotWrite(rp.w)
       /\ ~rp.result.success => rp.result.error # Absent
  /\ (BatchDone /\ ~cli.aborted) =>
       /\ Range(cli.attempted) = {w \in Workspaces : NeedsRepair0(w)}
       /\ Len(cli.attempted) = Cardinality(Range(cli.attempted))
       /\ cli.fail_count =
            Cardinality({w \in Range(cli.attempted) : CannotWrite(w)})
       /\ cli.success_count + cli.fail_count = Len(cli.attempted)
       /\ cli.exit # Some(0) <=> \E w \in Range(cli.attempted) : CannotWrite(w)
  /\ (BatchDone /\ cli.aborted) => (cli.exit = Some(1) /\ cli.attempted = <<>>)

C10_Witness ==
  /\ BatchDone /\ ~cli.aborted /\ cli.exit = Some(1)
  /\ Len(cli.attempted) = 3
  /\ dbStatus[cli.attempted[1]] = "missing"
  /\ dbStatus[cli.attempted[2]] = "unwritable"
  /\ dbStatus[cli.attempted[3]] = "ok"
  /\ rp.w = cli.attempted[3] /\ rp.wrote
  /\ cli.success_count = 1 /\ cli.fail_count = 2

\* --------------------------------------------------------------------- C11

\* The positions of the list that hold another workspace with X on disk.
OtherHolders ==
  {i \in 1..Len(probe.all_workspaces) :
     /\ probe.all_workspaces[i] # probe.current
     /\ disk[probe.all_workspaces[i]][probe.session_id] # NoFile}

ResolverReturned == probe.fn = "find_orphan_in_other_workspaces"

\* C11: find_orphan_in_other_workspaces returns nothing when no workspace
\* other than the current one has the session on disk; otherwise it returns
\* the first workspace of the list, other than the current one, that has it,
\* and same_project is true exactly when both folders are known and their
\* last components are equal ignoring case.
C11_ResolverResult ==
  ResolverReturned =>
    IF OtherHolders = {} THEN probe.result = Absent
    ELSE /\ probe.result # Absent
         /\ LET first == CHOOSE i \in OtherHolders :
                           \A j \in OtherHolders : i <= j
                found == probe.result[1]
            IN /\ found.workspace = probe.all_workspaces[first]
               /\ found.workspace # probe.current
               /\ found.same_project
                    = SameFolderName(probe.current, found.workspace)

\* The current workspace has the session too and comes first in the list,
\* and the workspace returned has the same folder name in another case.
C11_Witness ==
  /\ ResolverReturned
  /\ disk[probe.current][probe.session_id] # NoFile
  /\ probe.all_workspaces[1] = probe.current
  /\ probe.result # Absent
  /\ probe.result[1].same_project
  /\ meta[probe.current].path.comps # meta[probe.result[1].workspace].path.comps

\* --------------------------------------------------------------------- C12

EntryBuilt == probe.fn = "entry"
HasText == probe.fn = "entry" /\ probe.shape \notin {"no_requests", "no_parts", "no_text"}

\* C12: the title of a parsed session is never empty and never longer than
\* 100 characters; without requests it is the placeholder and isEmpty is
\* true; a first text of at most 100 characters after trimming is kept, a
\* longer one becomes its first 97 characters and a 3-character ellipsis; an
\* empty or whitespace-only first text, or a first request without a text
\* part, gives the placeholder.
C12_Title ==
  EntryBuilt =>
    LET title == probe.result.title
        stripped == Body(probe.body)
    IN /\ title # <<>>
       /\ Len(title) <= 100
       /\ probe.shape = "no_requests" =>
            title = UNTITLED /\ probe.result.isEmpty
       /\ ~HasText => title = UNTITLED
       /\ HasText /\ probe.body = 0 => title = UNTITLED
       /\ HasText /\ probe.body \in 1..100 => title = stripped
       /\ HasText /\ probe.body > 100 =>
            /\ Len(title) = 100
            /\ SubSeq(title, 1, 97) = SubSeq(stripped, 1, 97)
            /\ SubSeq(title, 98, 100) = <<".", ".", ".">>

\* A first text of more than 100 characters between whitespace was cut.
C12_Witness ==
  /\ EntryBuilt /\ HasText
  /\ probe.body > 100 /\ probe.lead > 0 /\ probe.trail > 0
  /\ Len(probe.result.title) = 100

\* --------------------------------------------------------------------- C13

\* The entries of the index before the call, and of the index it wrote.
PriorEntries == EntriesOf(rp.pre)
WrittenEntries == EntriesOf(dbRow[rp.w])

\* C13: in the index a repair writes, a prior entry whose ID has no file on
\* disk is present with its value unchanged when orphan removal is off and
\* is not present when it is on; the entry of an ID whose file parses is
\* always regenerated from the file, with sessionId equal to its key and
\* isImported false, whatever entry the index had for it.
C13_Additive ==
  rp.wrote =>
    /\ \A s \in Keys(PriorEntries) \ OnDisk(rp.w) :
         IF rp.remove_orphans THEN ~HasKey(WrittenEntries, s)
         ELSE /\ HasKey(WrittenEntries, s)
              /\ Get(WrittenEntries, s) = Get(PriorEntries, s)
    /\ \A s \in Parsable(rp.w) :
         /\ HasKey(WrittenEntries, s)
         /\ Get(WrittenEntries, s).sessionId = s
         /\ ~Get(WrittenEntries, s).isImported
         /\ Get(WrittenEntries, s) = MakeEntry(s, disk[rp.w][s])

\* A repair without orphan removal wrote an index that keeps an orphaned
\* entry next to an entry regenerated over a prior one.
C13_Witness ==
  /\ rp.wrote /\ ~rp.remove_orphans
  /\ Keys(PriorEntries) \ OnDisk(rp.w) # {}
  /\ Keys(PriorEntries) \cap Parsable(rp.w) # {}

\* --------------------------------------------------------------------- C14

\* C14: at every point of a repair and after it returns, the stored index
\* is either the whole record of before the repair or the whole new record
\* {version: 1, entries}; when the repair returns success = false it is the
\* record of before the repair.
C14_NoPartialIndex ==
  rp.pc # "idle" =>
    /\ dbRow[rp.w] \in {rp.pre, IndexRow(1, rp.entries)}
    /\ (Returned /\ ~rp.result.success) => dbRow[rp.w] = rp.pre
    /\ rp.wrote => dbRow[rp.w] = IndexRow(1, rp.entries)

\* The write of a new index that differs from the stored one has failed
\* after the backup was made.
C14_Witness ==
  /\ Returned /\ ~rp.result.success
  /\ rp.backup_path # Absent
  /\ rp.entries # <<>>
  /\ IndexRow(1, rp.entries) # rp.pre

\* --------------------------------------------------------------------- C15

\* A batch run that is not a dry run has passed its recovery step with
\* --recover-orphans, and no copy has raised.
BatchRecovered ==
  /\ cli.mode = "batch" /\ cli.resolved
  /\ cli.recover_orphans /\ ~cli.dry_run
  /\ cli.copy_failed = {}

\* X is orphaned in W and is a file of another scanned workspace.
Recoverable0(W, X) ==
  Orphan0(W, X) /\ \E b \in Workspaces \ {W} : X \in OnDisk0(b)

\* C15: in a batch run with --recover-orphans that is not a dry run, every
\* orphaned ID of every workspace needing repair that is a file of another
\* scanned workspace has been copied into the workspace and is in its
\* on-disk set before the workspace is repaired, also when two workspaces
\* have the same ID orphaned; the files and on-disk sets of the source
\* workspaces are as they were.
C15_EveryOrphanRecovered ==
  BatchRecovered =>
    \A W \in Range(cli.needs_repair), X \in SessionIds :
      Recoverable0(W, X) =>
        /\ disk[W][X] # NoFile
        /\ X \in info[W].sessions_on_disk
        /\ \A b \in Workspaces :
             X \in OnDisk0(b) =>
               /\ disk[b][X] = start.disk[b][X]
               /\ X \in info[b].sessions_on_disk

\* --------------------------------------------------------------------- C16

\* The session IDs with a file but no entry before the repair, and the keys
\* of the rebuilt index.
MissingBefore == OnDisk(rp.w) \ Keys(PriorEntries)
RebuiltKeys == Keys(rp.entries)

\* C16: when repair_workspace returns success = true, sessions_restored is
\* the length of restored_sessions, which is the number of IDs missing from
\* the index before the repair that have an entry in the rebuilt index, and
\* sessions_removed is the number of prior index keys that the rebuilt
\* index lacks, 0 when orphan removal is off.
C16_ResultConsistent ==
  (Returned /\ rp.result.success) =>
    /\ rp.result.sessions_restored = Len(rp.result.restored_sessions)
    /\ Len(rp.result.restored_sessions)
         = Cardinality(MissingBefore \cap RebuiltKeys)
    /\ rp.result.sessions_removed
         = Cardinality(Keys(PriorEntries) \ RebuiltKeys)
    /\ ~rp.remove_orphans => rp.result.sessions_removed = 0

====
